---- MODULE Spec2Model ----
(***************************************************************************)
(* TreeSearch (src/treesearch.py): the batch loop of __main__ and the four *)
(* functions get_locations, get_ipni_id, get_synonyms and                  *)
(* get_locations_from_gts, as one sequential state machine.                *)
(*                                                                         *)
(* Strings that the code splits (names) are sequences of one-character     *)
(* strings.  The three remote services are the environment: every answer   *)
(* they can give under their interface is drawn with \E.  A record of the  *)
(* synonym service may lack 'synonyms' and 'accepted'; the synonym names   *)
(* it lists are species names (genus, blank, epithet).                     *)
(* The comparisons written with "is" in the source (size() is 1,           *)
(* ipni_id is not '') are modelled as equalities, as CPython evaluates     *)
(* them for small integers and the empty string.                           *)
(***************************************************************************)
EXTENDS Integers, Sequences, FiniteSets, Bags, TLC

----------------------------------------------------------------------------
(* Bounds of the model *)

MaxRecords == 2
MaxSyn == 1
MaxResults == 1

----------------------------------------------------------------------------
(* Values *)

SeqsUpTo(S, m) == UNION {[1..l -> S] : l \in 0..m}

(* "", "q", "q ", " q", "q q" *)
Names == {<<>>, <<"q">>, <<"q", " ">>, <<" ", "q">>, <<"q", " ", "q">>}

NaN == <<"NaN">>

Authors == {<<"L", ".">>, NaN}

Rows == [Name : Names \cup {NaN}, Author : Authors]

NoRow == [Name |-> NaN, Author |-> NaN]

FqIds == {"id1", "id2"}

(* the answers of the name index: no hit, one hit, two hits *)
IpniHits == {<<>>, <<"id1">>, <<"id1", "id2">>}

AcceptedIds == {"id2"}

SynNames == {<<"p", " ", "r">>}

Countries == {"DE", "FR"}

(* the TSGeolinks of one result entry, as its list of countries *)
GeoLinks == {<<>>, <<"DE">>, <<"FR">>, <<"DE", "FR">>, <<"DE", "DE">>}

Replies == {<<"y">>, <<"Y">>, <<"n">>}

NoReply == <<"none">>

----------------------------------------------------------------------------
(* The answers of the three services *)

IpniOutcomes ==
    {[ok |-> FALSE, hits |-> <<>>]} \cup [ok : {TRUE}, hits : IpniHits]

PowoFail ==
    [ok |-> FALSE, taxonomicStatus |-> "", hasSynonyms |-> FALSE, synonyms |-> <<>>,
     hasAccepted |-> FALSE, acceptedFqId |-> ""]

PowoRecords ==
    {r \in [ok : {TRUE}, taxonomicStatus : {"Accepted", "Synonym", "Unplaced"},
            hasSynonyms : BOOLEAN, synonyms : SeqsUpTo(SynNames, MaxSyn),
            hasAccepted : BOOLEAN, acceptedFqId : AcceptedIds \cup {""}] :
        /\ (~r.hasSynonyms => r.synonyms = <<>>)
        /\ (r.hasAccepted <=> r.acceptedFqId # "")}

PowoOutcomes == {PowoFail} \cup PowoRecords

GtsFail == [ok |-> FALSE, results |-> <<>>]

GtsOutcomes ==
    {GtsFail} \cup [ok : {TRUE}, results : SeqsUpTo(GeoLinks, MaxResults)]

----------------------------------------------------------------------------
(* Pure helpers *)

RECURSIVE Split(_)
Split(s) ==
    IF s = <<>> THEN << <<>> >>
    ELSE LET p == Split(SubSeq(s, 1, Len(s) - 1))
             c == s[Len(s)]
         IN  IF c = " " THEN Append(p, <<>>)
             ELSE [p EXCEPT ![Len(p)] = Append(@, c)]

IsNaN(val) == val = NaN

(* the space-separated tokens of a name: the non-empty pieces *)
TokenCount(name) == Cardinality({j \in 1..Len(Split(name)) : Split(name)[j] # <<>>})

WellFormed(name) == ~IsNaN(name) /\ TokenCount(name) >= 2

Malformed(name) == ~IsNaN(name) /\ TokenCount(name) < 2

Lower(r) == [j \in 1..Len(r) |-> IF r[j] = "Y" THEN "y" ELSE r[j]]

QuitRequested_caseSensitive(r) == ~(\E j \in 1..Len(r) : r[j] = "y")

QuitRequested(r) == ~(\E j \in 1..Len(Lower(r)) : Lower(r)[j] = "y")

IpniId_first(search) ==
    IF search.ok /\ Len(search.hits) >= 1 THEN search.hits[1] ELSE ""

IpniId(search) ==
    IF search.ok /\ Len(search.hits) = 1 THEN search.hits[1] ELSE ""

SynonymBranchResult(lookup, accepted) ==
    IF lookup.hasSynonyms THEN lookup.synonyms ELSE accepted.synonyms

AcceptedBranchResult(lookup) ==
    IF lookup.hasSynonyms THEN lookup.synonyms ELSE <<>>

CombinedNames_onlySynonyms(fetched, name) ==
    IF fetched = <<>> THEN <<name>> ELSE fetched

CombinedNames(fetched, name) == Append(fetched, name)

GtsSucceeded_anyAnswer(resp) == resp.ok

GtsSucceeded(resp) == resp.ok /\ Len(resp.results) > 0

GtsCountries(resp) ==
    IF resp.ok /\ Len(resp.results) > 0
    THEN UNION {{resp.results[r][l] : l \in 1..Len(resp.results[r])} :
                    r \in 1..Len(resp.results)}
    ELSE {}

Extend(list, s) == list (+) SetToBag(s)

Perms(S) == {p \in [1..Cardinality(S) -> S] : \A x \in S : \E j \in 1..Cardinality(S) : p[j] = x}

SomePerm(S) == CHOOSE p \in Perms(S) : TRUE

LocationsAfterQuit_partial(locs, idx, partial) ==
    [locs EXCEPT ![idx] = SomePerm(BagToSet(partial))]

LocationsAfterQuit(locs, idx, partial) == locs

PcAfterQuit_continue == "loop"

PcAfterQuit == "attach"

----------------------------------------------------------------------------
(* State.  pc is the position of the single thread; n is len(data), i the  *)
(* (1-based) index of the row d being processed.  lookup_res, accepted_res *)
(* and res are the locals of get_synonyms; synonyms, locs (the list        *)
(* "locations" of get_locations, as a bag) and k (the position of the for  *)
(* loop of line 99) are the locals of get_locations; call is the outcome   *)
(* of the latest get_locations_from_gts call for the row.  ipniAnswer (the *)
(* size of the name index's answer for the row, -1 for a failed request,   *)
(* -2 before the query), powoLookups (the IDs looked up for the row),      *)
(* gtsCalls, gtsAnswered (the calls made, and those answered with at least *)
(* one result entry), rowCalls and rowReturned (the calls made for the     *)
(* row, the union of the sets they returned) are history variables.        *)

VARIABLES
    pc, n, i, d, locations, column, summary, exitCode,
    TOTAL_NAMES_PROCESSED, TOTAL_LOCATION_QUERIES_SUCCEEDED,
    ipni_id, lookup_res, accepted_res, res, synonyms, k, locs, current_locs,
    call, exc, aborted,
    ipniAnswer, powoLookups, gtsCalls, gtsAnswered, rowCalls, rowReturned

vars ==
    <<pc, n, i, d, locations, column, summary, exitCode,
      TOTAL_NAMES_PROCESSED, TOTAL_LOCATION_QUERIES_SUCCEEDED,
      ipni_id, lookup_res, accepted_res, res, synonyms, k, locs, current_locs,
      call, exc, aborted,
      ipniAnswer, powoLookups, gtsCalls, gtsAnswered, rowCalls, rowReturned>>

mainVars == <<n, locations, column, summary, exitCode>>

counters == <<TOTAL_NAMES_PROCESSED, TOTAL_LOCATION_QUERIES_SUCCEEDED>>

synVars == <<ipni_id, lookup_res, accepted_res, res, synonyms>>

gtsVars == <<k, locs, current_locs, call>>

rowHist == <<rowCalls, rowReturned>>

history == <<ipniAnswer, powoLookups, gtsCalls, gtsAnswered, rowHist>>

NoSummary == [names |-> -1, hits |-> -1, specs |-> -1]

NoCall ==
    [name |-> <<>>, failed |-> FALSE, reply |-> NoReply, raised |-> FALSE, res |-> {}]

Init ==
    /\ pc = "loop"
    /\ n \in 1..MaxRecords
    /\ i = 1
    /\ d = NoRow
    /\ locations = [j \in 1..n |-> <<>>]
    /\ column = <<"absent">>
    /\ summary = NoSummary
    /\ exitCode = -1
    /\ TOTAL_NAMES_PROCESSED = 0
    /\ TOTAL_LOCATION_QUERIES_SUCCEEDED = 0
    /\ ipni_id = ""
    /\ lookup_res = PowoFail
    /\ accepted_res = PowoFail
    /\ res = <<>>
    /\ synonyms = <<>>
    /\ k = 1
    /\ locs = EmptyBag
    /\ current_locs = {}
    /\ call = NoCall
    /\ exc = "none"
    /\ aborted = FALSE
    /\ ipniAnswer = -2
    /\ powoLookups = <<>>
    /\ gtsCalls = 0
    /\ gtsAnswered = 0
    /\ rowCalls = 0
    /\ rowReturned = {}

----------------------------------------------------------------------------
(* __main__: the batch loop *)

LoopEnd ==
    /\ pc = "loop"
    /\ i > n
    /\ pc' = "attach"
    /\ UNCHANGED <<mainVars, i, d, counters, synVars, gtsVars, exc, aborted, history>>

(* lines 273-278: a row whose Name or Author is NaN *)
SkipRow ==
    /\ pc = "loop"
    /\ i <= n
    /\ \E row \in Rows :
        /\ IsNaN(row.Name) \/ IsNaN(row.Author)
        /\ d' = row
    /\ i' = i + 1
    /\ UNCHANGED <<pc, mainVars, counters, synVars, gtsVars, exc, aborted, history>>

(* lines 263-267: a complete row; get_locations is called *)
ProcessRow ==
    /\ pc = "loop"
    /\ i <= n
    /\ \E row \in Rows :
        /\ ~(IsNaN(row.Name) \/ IsNaN(row.Author))
        /\ d' = row
    /\ pc' = "get_locations"
    /\ UNCHANGED <<mainVars, i, counters, synVars, gtsVars, exc, aborted, history>>

(* get_locations, lines 83-88: the name check *)
GetLocations ==
    /\ pc = "get_locations"
    /\ LET name_parts == Split(d.Name)
       IN  IF Len(name_parts) > 1
           THEN /\ pc' = "ipni"
                /\ UNCHANGED current_locs
           ELSE /\ pc' = "join"
                /\ current_locs' = {}
    /\ UNCHANGED <<mainVars, i, d, counters, synVars, k, locs, call, exc, aborted, history>>

GetIpniId ==
    /\ pc = "ipni"
    /\ \E search \in IpniOutcomes :
        /\ ipni_id' = IpniId(search)
        /\ ipniAnswer' = IF search.ok THEN Len(search.hits) ELSE -1
    /\ pc' = "powo1"
    /\ UNCHANGED <<mainVars, i, d, counters, lookup_res, accepted_res, res, synonyms,
                   gtsVars, exc, aborted, powoLookups, gtsCalls, gtsAnswered, rowHist>>

(* get_synonyms, lines 140-141: the empty ID *)
GetSynonymsEmptyId ==
    /\ pc = "powo1"
    /\ ipni_id = ""
    /\ res' = <<>>
    /\ pc' = "syn_ret"
    /\ UNCHANGED <<mainVars, i, d, counters, ipni_id, lookup_res, accepted_res, synonyms,
                   gtsVars, exc, aborted, history>>

(* get_synonyms, lines 142-158: the lookup of ipni_id; line 158 reads       *)
(* lookup_res['accepted'] outside every try block                           *)
GetSynonymsLookup ==
    /\ pc = "powo1"
    /\ ipni_id # ""
    /\ powoLookups' = Append(powoLookups, ipni_id)
    /\ \E out \in PowoOutcomes :
        /\ lookup_res' = out
        /\ IF ~out.ok
           THEN /\ res' = <<>>
                /\ pc' = "syn_ret"
                /\ exc' = exc
           ELSE IF out.taxonomicStatus = "Accepted"
           THEN /\ res' = AcceptedBranchResult(out)
                /\ pc' = "syn_ret"
                /\ exc' = exc
           ELSE IF out.taxonomicStatus = "Synonym"
           THEN IF out.hasAccepted
                THEN /\ res' = <<>>
                     /\ pc' = "powo2"
                     /\ exc' = exc
                ELSE /\ res' = <<>>
                     /\ pc' = "crashed"
                     /\ exc' = "KeyError"
           ELSE /\ res' = <<>>
                /\ pc' = "syn_ret"
                /\ exc' = exc
    /\ UNCHANGED <<mainVars, i, d, counters, ipni_id, accepted_res, synonyms, gtsVars,
                   aborted, ipniAnswer, gtsCalls, gtsAnswered, rowHist>>

(* get_synonyms, lines 159-170: the lookup of the accepted name; only      *)
(* RequestException is caught, a missing 'synonyms' is a KeyError           *)
GetSynonymsAccepted ==
    /\ pc = "powo2"
    /\ powoLookups' = Append(powoLookups, lookup_res.acceptedFqId)
    /\ \E out \in PowoOutcomes :
        /\ accepted_res' = out
        /\ IF ~out.ok
           THEN /\ res' = <<>>
                /\ pc' = "syn_ret"
                /\ exc' = exc
           ELSE IF ~out.hasSynonyms
           THEN /\ res' = <<>>
                /\ pc' = "crashed"
                /\ exc' = "KeyError"
           ELSE /\ res' = SynonymBranchResult(lookup_res, out)
                /\ pc' = "syn_ret"
                /\ exc' = exc
    /\ UNCHANGED <<mainVars, i, d, counters, ipni_id, lookup_res, synonyms, gtsVars,
                   aborted, ipniAnswer, gtsCalls, gtsAnswered, rowHist>>

(* get_synonyms returns; get_locations, lines 94-98 *)
GetSynonymsReturn ==
    /\ pc = "syn_ret"
    /\ synonyms' = CombinedNames(res, d.Name)
    /\ lookup_res' = PowoFail
    /\ accepted_res' = PowoFail
    /\ k' = 1
    /\ locs' = EmptyBag
    /\ pc' = "gts"
    /\ UNCHANGED <<mainVars, i, d, counters, ipni_id, res, current_locs, call, exc,
                   aborted, history>>

(* get_locations_from_gts, called for synonyms[k].  When the operator      *)
(* quits, the exception leaves get_locations and is caught at lines 270-272 *)
GetLocationsFromGts ==
    /\ pc = "gts"
    /\ k <= Len(synonyms)
    /\ TOTAL_NAMES_PROCESSED' = TOTAL_NAMES_PROCESSED + 1
    /\ gtsCalls' = gtsCalls + 1
    /\ rowCalls' = rowCalls + 1
    /\ \E resp \in GtsOutcomes : \E r \in IF resp.ok THEN {NoReply} ELSE Replies :
        LET quit == ~resp.ok /\ QuitRequested(r)
        IN  /\ TOTAL_LOCATION_QUERIES_SUCCEEDED' =
                  IF GtsSucceeded(resp) THEN TOTAL_LOCATION_QUERIES_SUCCEEDED + 1
                  ELSE TOTAL_LOCATION_QUERIES_SUCCEEDED
            /\ gtsAnswered' = IF Len(resp.results) >= 1 THEN gtsAnswered + 1 ELSE gtsAnswered
            /\ call' = [name |-> synonyms[k], failed |-> ~resp.ok,
                        reply |-> r,
                        raised |-> quit,
                        res |-> IF quit THEN {} ELSE GtsCountries(resp)]
            /\ rowReturned' = IF quit THEN rowReturned ELSE rowReturned \cup call'.res
            /\ IF quit
               THEN /\ exc' = "RequestException"
                    /\ aborted' = TRUE
                    /\ locations' = LocationsAfterQuit(locations, i, locs)
                    /\ pc' = PcAfterQuit
                    /\ UNCHANGED <<k, locs>>
               ELSE /\ locs' = Extend(locs, GtsCountries(resp))
                    /\ k' = k + 1
                    /\ UNCHANGED <<pc, exc, aborted, locations>>
    /\ UNCHANGED <<n, column, summary, exitCode, i, d, synVars, current_locs,
                   ipniAnswer, powoLookups>>

(* get_locations, line 102 *)
GetLocationsReturn ==
    /\ pc = "gts"
    /\ k > Len(synonyms)
    /\ current_locs' = BagToSet(locs)
    /\ pc' = "join"
    /\ UNCHANGED <<mainVars, i, d, counters, synVars, k, locs, call, exc, aborted, history>>

(* lines 268-269, and the next iteration; the locals of the finished call  *)
(* are dropped, the loop variable d keeps the row                           *)
AssignLocations ==
    /\ pc = "join"
    /\ \E joined \in Perms(current_locs) :
        locations' = [locations EXCEPT ![i] = joined]
    /\ i' = i + 1
    /\ pc' = "loop"
    /\ ipni_id' = ""
    /\ res' = <<>>
    /\ synonyms' = <<>>
    /\ k' = 1
    /\ locs' = EmptyBag
    /\ current_locs' = {}
    /\ call' = NoCall
    /\ ipniAnswer' = -2
    /\ powoLookups' = <<>>
    /\ rowCalls' = 0
    /\ rowReturned' = {}
    /\ UNCHANGED <<n, column, summary, exitCode, d, counters, lookup_res, accepted_res,
                   exc, aborted, gtsCalls, gtsAnswered>>

(* lines 280-287: the Locations column and the summary *)
AttachLocations ==
    /\ pc = "attach"
    /\ column' = locations
    /\ summary' = [names |-> TOTAL_NAMES_PROCESSED,
                   hits  |-> TOTAL_LOCATION_QUERIES_SUCCEEDED,
                   specs |-> n]
    /\ pc' = "output"
    /\ UNCHANGED <<n, locations, exitCode, i, d, counters, synVars, gtsVars, exc,
                   aborted, history>>

(* lines 294-315: file, home directory, or standard output *)
Output ==
    /\ pc = "output"
    /\ \E written \in {"file", "home", "stdout", "nowhere"} :
        exitCode' = IF written = "nowhere" THEN 1 ELSE 0
    /\ pc' = "done"
    /\ UNCHANGED <<n, locations, column, summary, i, d, counters, synVars, gtsVars, exc,
                   aborted, history>>

Next ==
    \/ LoopEnd
    \/ SkipRow
    \/ ProcessRow
    \/ GetLocations
    \/ GetIpniId
    \/ GetSynonymsEmptyId
    \/ GetSynonymsLookup
    \/ GetSynonymsAccepted
    \/ GetSynonymsReturn
    \/ GetLocationsFromGts
    \/ GetLocationsReturn
    \/ AssignLocations
    \/ AttachLocations
    \/ Output

Spec == Init /\ [][Next]_vars

TypeOK ==
    /\ pc \in {"loop", "get_locations", "ipni", "powo1", "powo2", "syn_ret", "gts", "join",
               "attach", "output", "done", "crashed"}
    /\ n \in 1..MaxRecords
    /\ i \in 1..(n + 1)
    /\ d \in Rows
    /\ Len(locations) = n
    /\ TOTAL_NAMES_PROCESSED \in Nat
    /\ TOTAL_LOCATION_QUERIES_SUCCEEDED \in Nat
    /\ ipni_id \in FqIds \cup {""}
    /\ current_locs \subseteq Countries
    /\ exc \in {"none", "RequestException", "KeyError"}
    /\ aborted \in BOOLEAN

----------------------------------------------------------------------------
(* Vocabulary of the properties *)

Range(f) == {f[j] : j \in DOMAIN f}

(* the operator answers the prompt "Continue? [y/n]" with yes *)
SaysYes(r) == \E j \in 1..Len(r) : r[j] \in {"y", "Y"}

NoUniqueMatch == ipniAnswer = -1 \/ ipniAnswer = 0 \/ ipniAnswer >= 2

----------------------------------------------------------------------------
(* C1: for a name of at least two tokens, get_locations never raises,      *)
(* whatever the services answer and whatever the operator replies.         *)
C1_NeverRaises == WellFormed(d.Name) => (exc = "none" /\ pc # "crashed")

(* C2: when the looked-up record is a "Synonym" and the second lookup, by  *)
(* the record's accepted fqId, succeeds, get_synonyms returns the synonym  *)
(* names of the accepted record, after at most two lookups.                *)
C2_AcceptedSynonymsReturned ==
    (pc = "syn_ret" /\ WellFormed(d.Name)
        /\ lookup_res.ok /\ lookup_res.taxonomicStatus = "Synonym" /\ accepted_res.ok)
    => /\ res = accepted_res.synonyms
       /\ powoLookups = <<ipni_id, lookup_res.acceptedFqId>>

(* C3: once the operator has answered the failed occurrence query with no, *)
(* the loop is over: control is at the attach, output or final step, so no *)
(* service is queried again; the Locations list is what it was before the  *)
(* aborted call, the rows after the aborted one hold the empty string, and *)
(* the attach step and the output step are taken from there with the       *)
(* column equal to that list.                                              *)
C3_AbortEndsLoop ==
    /\ [](aborted => pc \in {"attach", "output", "done"})
    /\ [][aborted' => (locations' = locations /\ i' = i)]_vars
    /\ [][aborted => UNCHANGED <<counters, ipniAnswer, powoLookups, gtsCalls>>]_vars
    /\ [](aborted => \A j \in (i + 1)..n : locations[j] = <<>>)
    /\ [](aborted /\ pc = "attach" => ENABLED AttachLocations)
    /\ [](aborted /\ pc = "output" => ENABLED Output)
    /\ [](aborted /\ pc \in {"output", "done"} => column = locations)

C3_Witness ==
    /\ aborted /\ pc = "done" /\ call.reply = <<"n">>
    /\ i = 2 /\ locations[1] # <<>> /\ column = locations

(* C4: TOTAL_NAMES_PROCESSED is the number of get_locations_from_gts calls *)
(* made so far, whatever their outcome, and                                *)
(* TOTAL_LOCATION_QUERIES_SUCCEEDED the number of those answered with at   *)
(* least one result entry; so the second never exceeds the first, and a    *)
(* step that makes no such call changes neither.                           *)
C4_CountersCountCalls ==
    /\ TOTAL_NAMES_PROCESSED = gtsCalls
    /\ TOTAL_LOCATION_QUERIES_SUCCEEDED = gtsAnswered
    /\ TOTAL_LOCATION_QUERIES_SUCCEEDED <= TOTAL_NAMES_PROCESSED

C4_Witness ==
    /\ aborted /\ gtsCalls = 3 /\ gtsAnswered = 1
    /\ TOTAL_NAMES_PROCESSED = 3 /\ TOTAL_LOCATION_QUERIES_SUCCEEDED = 1

(* C5: for a well-formed name whose name-index lookup failed or gave 0 or  *)
(* at least 2 matches, the ID is empty, the synonym service is not queried *)
(* for the row, and the occurrence service is queried once, for the        *)
(* original name.                                                          *)
C5_NoUniqueMatchSkipsSynonyms ==
    (WellFormed(d.Name) /\ NoUniqueMatch) =>
        /\ ipni_id = ""
        /\ powoLookups = <<>>
        /\ pc # "powo2"
        /\ (pc \in {"gts", "join"} \/ aborted) => synonyms = <<d.Name>>
        /\ rowCalls <= 1
        /\ (pc = "join" \/ aborted) => rowCalls = 1
        /\ rowCalls = 1 => call.name = d.Name

C5_Witness ==
    /\ pc = "join" /\ WellFormed(d.Name) /\ ipniAnswer = 2
    /\ rowCalls = 1 /\ current_locs # {}

(* C6: for a name of fewer than two tokens, get_locations returns the      *)
(* empty set, queries no service, leaves the counters alone and does not   *)
(* abort the batch.                                                        *)
C6_MalformedNameNoQuery ==
    Malformed(d.Name) =>
        /\ pc \notin {"ipni", "powo1", "powo2", "syn_ret", "gts", "crashed"}
        /\ ipniAnswer = -2 /\ powoLookups = <<>> /\ rowCalls = 0
        /\ current_locs = {}
        /\ ~aborted /\ exc = "none"

(* C7: for a well-formed name and no abort, get_locations_from_gts is      *)
(* called once per entry of "the synonyms get_synonyms returned, then the  *)
(* original name", in that order, and get_locations returns the union of   *)
(* the sets those calls returned.                                          *)
C7_OneCallPerNameAndUnion ==
    (WellFormed(d.Name) /\ pc \in {"gts", "join"}) =>
        /\ rowCalls <= Len(res) + 1
        /\ rowCalls >= 1 => call.name = Append(res, d.Name)[rowCalls]
        /\ pc = "join" =>
              /\ rowCalls = Len(res) + 1
              /\ call.name = d.Name
              /\ current_locs = rowReturned

C7_Witness ==
    /\ pc = "join" /\ WellFormed(d.Name) /\ Len(res) = 1 /\ rowCalls = 2
    /\ call.res = {"DE"}
    /\ CopiesIn("DE", locs) = 2 /\ CopiesIn("FR", locs) = 1
    /\ current_locs = {"DE", "FR"}

(* C8: the counters count records.  For a batch of one record with a       *)
(* well-formed name, processed without abort: in the summary the processed *)
(* counter is 1, the successful counter is 1 if the record had a location  *)
(* hit and 0 otherwise, and it does not exceed the number of records.      *)
C8_CountersCountRecords ==
    (pc \in {"output", "done"} /\ n = 1 /\ ~aborted
        /\ WellFormed(d.Name) /\ ~IsNaN(d.Author)) =>
        /\ summary.names = 1
        /\ summary.hits = (IF gtsAnswered >= 1 THEN 1 ELSE 0)
        /\ summary.hits <= summary.specs

(* C9 as stated: on abort, the countries the earlier names of the aborted  *)
(* row returned are kept in that row's Locations.                          *)
C9_PartialRowKept ==
    (aborted /\ pc \in {"output", "done"} /\ WellFormed(d.Name))
    => rowReturned \subseteq Range(column[i])

(* C9 as amended: on abort, the rows completed before keep their           *)
(* Locations and the aborted row keeps the empty string: what its earlier  *)
(* names returned is dropped.                                              *)
C9_AbortedRowEmpty ==
    aborted =>
        /\ locations[i] = <<>>
        /\ pc \in {"output", "done"} => column[i] = <<>>

C9_Witness ==
    /\ aborted /\ pc = "done" /\ WellFormed(d.Name) /\ rowCalls = 2 /\ rowReturned # {}
    /\ column[i] = <<>>

(* C10: a failed occurrence query that the operator lets continue returns  *)
(* the empty set and leaves the successful counter alone; the next name of *)
(* the row is queried, the row's result is the union of what its other     *)
(* calls returned, and the loop goes on to the next row.                   *)
C10_ContinueAfterFailure ==
    /\ [][(rowCalls' = rowCalls + 1 /\ call'.failed /\ SaysYes(call'.reply)) =>
            /\ call'.res = {} /\ ~call'.raised
            /\ TOTAL_LOCATION_QUERIES_SUCCEEDED' = TOTAL_LOCATION_QUERIES_SUCCEEDED
            /\ rowReturned' = rowReturned
            /\ pc' = "gts" /\ k' = k + 1
            /\ ~aborted' /\ exc' = "none"]_vars
    /\ [](pc = "gts" /\ call.failed /\ k <= Len(synonyms) => ENABLED GetLocationsFromGts)
    /\ [](pc = "gts" /\ call.failed /\ k > Len(synonyms) => ENABLED GetLocationsReturn)
    /\ [](pc = "join" /\ call.failed =>
            /\ rowCalls = Len(synonyms)
            /\ current_locs = rowReturned
            /\ ENABLED AssignLocations)

C10_Witness ==
    /\ pc = "join" /\ i < n /\ rowCalls = 2
    /\ call.failed /\ call.reply = <<"Y">>
    /\ current_locs = {"DE", "FR"}
====
